---- MODULE Spec2Model ----
(***************************************************************************)
(* A model of the Zoom runner of src/src/prototype.ts: the joinAndChat     *)
(* workflow of class ZoomRunner, its admission wait, its chat monitoring   *)
(* loop and its candidate resolver.                                        *)
(*                                                                         *)
(* Strings are sequences of one-character strings, so that the template    *)
(* `${msg.name}:${msg.text}`, toLowerCase, trim and includes are computed  *)
(* as the code computes them.                                              *)
(***************************************************************************)
EXTENDS Integers, Sequences, FiniteSets, Bags, TLC

VARIABLES
  config,            \* this.config (AppConfig), read-only after construction
  pc,                \* position in joinAndChat / monitorChatMessages
  error,             \* the error raised by the failing stage, "none" if none
  surface,           \* the surface resolveSurface returned
  leaveButton,       \* this.leaveButton is set
  seenMessages,      \* monitorChatMessages: const seenMessages = new Set<string>()
  consecutiveErrors, \* monitorChatMessages: let consecutiveErrors
  pending,           \* the messages of the current poll the for loop has not reached
  stages,            \* history: the stages started, in order
  returned,          \* history: the stages that returned normally, in order
  reached,           \* history: the messages the for loop has iterated over
  replies,           \* history: bag of <<message, token>>, one per sendQuickReply call
  failRun,           \* history: polling failures since the last successful poll
  shots,             \* history: screenshots attempted by the catch of joinAndChat
  debugShots,        \* history: labels of the captureDebugScreenshot calls
  attempt,           \* waitForAdmission: the for loop's attempt, 0 outside the loop
  admOut,            \* history of one waitForAdmission call (admission specification)
  resIn,             \* inputs of one findChatInputCandidates call (resolver specification)
  resOut,            \* what that call returned
  resLog,            \* history: the candidates that call probed and waited for, in order
  overrides,         \* the ConfigOverrides main() passed to loadConfig
  pageClosed,        \* page.isClosed() as the catch of joinAndChat read it
  failureShot,       \* how the page.screenshot call of that catch ended, "none" if not called
  sends,             \* history: the texts filled and submitted with Enter, with the sender
  resolvedInput,     \* sendChatMessage: const resolvedInput is defined
  strategy,          \* tryActivateChatInput: the strategy about to run, 0 outside
  activatedBy,       \* history: the strategy tryActivateChatInput returned true from
  leftSuccessfully,  \* leaveMeeting: let leftSuccessfully
  leaveIndex,        \* leaveMeeting: index of the leave strategy about to run, 0 outside
  modIn,             \* inputs of one dismissBlockingModals call (modal specification)
  modOut,            \* how that call ended
  ladderLog,         \* history of one tryActivateChatInput call (activation specification)
  leaveLog,          \* history of one leaveMeeting call (leave specification)
  joinOut,           \* history of one submitJoin call (join specification)
  openOut,           \* history of the open step of sendChatMessage (chat-open specification)
  run                \* run(): the signal handlers registered, the browser closes requested, how it ended

vars == <<config, pc, error, surface, leaveButton, seenMessages, consecutiveErrors,
          pending, stages, returned, reached, replies, failRun, shots,
          debugShots, attempt, admOut, resIn, resOut, resLog, overrides,
          pageClosed, failureShot, sends, resolvedInput, strategy, activatedBy,
          leftSuccessfully, leaveIndex, modIn, modOut, ladderLog, leaveLog,
          joinOut, openOut, run>>

(***************************************************************************)
(* Strings                                                                 *)
(***************************************************************************)
\* An optional value (undefined, null, a missing element): None or Some(v)
None == <<>>
Some(v) == <<v>>

UpperChars == <<"A","B","C","D","E","F","G","H","I","J","K","L","M",
                "N","O","P","Q","R","S","T","U","V","W","X","Y","Z">>
LowerChars == <<"a","b","c","d","e","f","g","h","i","j","k","l","m",
                "n","o","p","q","r","s","t","u","v","w","x","y","z">>

LowerChar(c) ==
  IF \E i \in 1..Len(UpperChars) : UpperChars[i] = c
  THEN LowerChars[CHOOSE i \in 1..Len(UpperChars) : UpperChars[i] = c]
  ELSE c

\* String.prototype.toLowerCase
ToLowerCase(s) == [i \in 1..Len(s) |-> LowerChar(s[i])]

IsSpace(c) == c \in {" ", "\t", "\n"}

RECURSIVE TrimStart(_)
TrimStart(s) ==
  IF s # <<>> /\ IsSpace(Head(s)) THEN TrimStart(Tail(s)) ELSE s

RECURSIVE TrimEnd(_)
TrimEnd(s) ==
  IF s # <<>> /\ IsSpace(s[Len(s)]) THEN TrimEnd(SubSeq(s, 1, Len(s) - 1)) ELSE s

\* String.prototype.trim
Trim(s) == TrimEnd(TrimStart(s))

\* String.prototype.includes
Includes(s, sub) ==
  \E i \in 0..(Len(s) - Len(sub)) : SubSeq(s, i + 1, i + Len(sub)) = sub

\* a?.textContent?.trim() || fallback
TrimOr(el, fallback) ==
  IF el = None THEN fallback
  ELSE IF Trim(el[1]) = <<>> THEN fallback ELSE Trim(el[1])

S_quit == <<"q","u","i","t">>
S_roger == <<"r","o","g","e","r">>
S_dong == <<"d","o","n","g">>
S_ImIn == <<"I","'","m"," ","i","n",".">>
S_FridayBOT == <<"F","r","i","d","a","y"," ","B","O","T">>
S_Bo == <<"B","o">>
S_al == <<"a","l">>
S_alb == <<"a","l",":","b">>
S_bc == <<"b",":","c">>
S_c == <<"c">>
S_yo == <<"y","o">>
S_hiBO == <<"h","i"," ","B","O">>
S_Quit == <<"Q","u","i","t">>

(***************************************************************************)
(* Configuration: ConfigSchema and loadConfig                              *)
(***************************************************************************)
DefaultLobbyTimeoutMs == 60000
MaxLobbyTimeoutMs == 3000

\* z.string().trim().min(1).default(d): the parsed value, None when parse throws
ParseName(raw, default) ==
  IF raw = None THEN Some(default)
  ELSE IF Trim(raw[1]) = <<>> THEN None ELSE Some(Trim(raw[1]))

\* z.coerce.number().int().positive().default(d)
ParsePositive(raw, default) ==
  IF raw = None THEN Some(default)
  ELSE IF raw[1] > 0 THEN raw ELSE None

\* ConfigSchema.parse(raw) succeeds
SchemaOk(raw) ==
  /\ ParseName(raw.botName, S_FridayBOT) # None
  /\ ParseName(raw.messageText, S_ImIn) # None
  /\ ParsePositive(raw.lobbyTimeoutMs, DefaultLobbyTimeoutMs) # None

\* loadConfig: raw carries no monitorMessages key, so the schema default applies
loadConfig(ovr) ==
  LET raw == [botName |-> ovr.botName,
              messageText |-> ovr.messageText,
              lobbyTimeoutMs |-> ovr.lobbyTimeoutMs]
  IN [botName |-> ParseName(raw.botName, S_FridayBOT)[1],
      messageText |-> ParseName(raw.messageText, S_ImIn)[1],
      monitorMessages |-> TRUE,
      lobbyTimeoutMs |-> ParsePositive(raw.lobbyTimeoutMs, DefaultLobbyTimeoutMs)[1]]

\* parseCliOverrides: --no-monitor gives monitorMessages false, else undefined
Overrides(names, texts, lobbies) ==
  [botName : names, messageText : texts,
   monitorMessages : {None, Some(FALSE)}, lobbyTimeoutMs : lobbies]

\* the configurations main() can construct a ZoomRunner with
Configs(names, texts, lobbies) ==
  {loadConfig(o) : o \in {x \in Overrides(names, texts, lobbies) : SchemaOk(x)}}

NameOverrides == {None, Some(<<" ">> \o S_Bo \o <<" ">>), Some(<<" ">>)}
TextOverrides == {None, Some(S_hiBO \o <<" ">>)}

(***************************************************************************)
(* Chat messages: the elements a poll finds and what the page script       *)
(* extracts from each                                                      *)
(***************************************************************************)
Element(nameEl, textEl, textContent) ==
  [nameEl |-> nameEl, textEl |-> textEl, textContent |-> textContent]

\* the callback of elements.map in monitorChatMessages
ExtractMessage(el) ==
  LET fullText == Trim(el.textContent)
  IN [name |-> TrimOr(el.nameEl, <<>>),
      text |-> TrimOr(el.textEl, fullText),
      fullText |-> fullText]

RECURSIVE ExtractAll(_)
\* elements.map(...).filter(msg => msg.text && msg.text.length > 0)
ExtractAll(els) ==
  IF els = <<>> THEN <<>>
  ELSE LET msg == ExtractMessage(Head(els))
       IN IF msg.text # <<>> THEN <<msg>> \o ExtractAll(Tail(els))
          ELSE ExtractAll(Tail(els))

\* `${msg.name}:${msg.text}`
MessageKey(msg) == msg.name \o <<":">> \o msg.text

\* isBotOwnMessage
\* the self test with the reply tokens alone
IsBotOwnMessage_ReplyTokensOnly(msg) == msg.text = S_roger \/ msg.text = S_dong

\* const isBotOwnMessage = ... (lines 433-437)
IsBotOwnMessage(msg) ==
  \/ msg.name = config.botName
  \/ msg.text = S_roger
  \/ msg.text = S_dong
  \/ msg.text = S_ImIn

\* const textLower = msg.text.toLowerCase().trim()
TextLower(msg) == Trim(ToLowerCase(msg.text))

\* the quit test without toLowerCase
IsQuitCommand_CaseSensitive(msg) == Trim(msg.text) = S_quit

\* if (textLower === 'quit')
IsQuitCommand(msg) == TextLower(msg) = S_quit

\* the mention test without toLowerCase
MentionsBot_CaseSensitive(msg) == Includes(msg.text, config.botName)

\* const mentionsBot = textLower.includes(botNameLower)
MentionsBot(msg) == Includes(TextLower(msg), ToLowerCase(config.botName))

\* the token the if (mentionsBot) statement passes to sendQuickReply
ReplyToken(msg) == IF MentionsBot(msg) THEN S_dong ELSE S_roger

maxConsecutiveErrors == 10

(***************************************************************************)
(* joinAndChat: the stages and their order                                 *)
(***************************************************************************)
StageOrder ==
  <<"goto", "acceptCookies", "resolveSurface", "fillDisplayName", "submitJoin",
    "waitForAdmission", "sendChatMessage", "monitorChatMessages", "leaveMeeting",
    "completed">>

\* NextStage with the admission wait left out
NextStage_SkipAdmission(s) ==
  CASE s = "goto" -> "acceptCookies"
    [] s = "acceptCookies" -> "resolveSurface"
    [] s = "resolveSurface" -> "fillDisplayName"
    [] s = "fillDisplayName" -> "submitJoin"
    [] s = "submitJoin" -> "sendChatMessage"
    [] s = "sendChatMessage" -> "monitorChatMessages"
    [] s = "monitorChatMessages" -> "leaveMeeting"
    [] s = "leaveMeeting" -> "completed"
    [] OTHER -> "done"

\* NextStage with the workflow completing right after monitoring
NextStage_NoLeave(s) ==
  CASE s = "goto" -> "acceptCookies"
    [] s = "acceptCookies" -> "resolveSurface"
    [] s = "resolveSurface" -> "fillDisplayName"
    [] s = "fillDisplayName" -> "submitJoin"
    [] s = "submitJoin" -> "waitForAdmission"
    [] s = "waitForAdmission" -> "sendChatMessage"
    [] s = "sendChatMessage" -> "monitorChatMessages"
    [] s = "monitorChatMessages" -> "completed"
    [] OTHER -> "done"

\* the statement that follows the call of stage s in the try block of joinAndChat
NextStage(s) ==
  CASE s = "goto" -> "acceptCookies"
    [] s = "acceptCookies" -> "resolveSurface"
    [] s = "resolveSurface" -> "fillDisplayName"
    [] s = "fillDisplayName" -> "submitJoin"
    [] s = "submitJoin" -> "waitForAdmission"
    [] s = "waitForAdmission" -> "sendChatMessage"
    [] s = "sendChatMessage" ->
         IF config.monitorMessages THEN "monitorChatMessages" ELSE "leaveMeeting"
    [] s = "monitorChatMessages" -> "leaveMeeting"
    [] s = "leaveMeeting" -> "completed"
    [] OTHER -> "done"

monVars == <<seenMessages, consecutiveErrors, pending, reached, replies, failRun>>
admVars == <<attempt, admOut>>
resVars == <<resIn, resOut, resLog>>
catchVars == <<pageClosed, failureShot>>
chatVars == <<sends, resolvedInput, strategy, activatedBy>>
leaveVars == <<leftSuccessfully, leaveIndex>>
modVars == <<modIn, modOut>>
logVars == <<ladderLog, leaveLog, joinOut, openOut>>

\* stage s is called
Start(s) == stages' = Append(stages, s)

\* stage s returns normally and joinAndChat goes on
Return(s) ==
  /\ returned' = Append(returned, s)
  /\ pc' = NextStage(s)
  /\ error' = error

\* stage s throws e: control passes to the catch of joinAndChat
Throw(e) ==
  /\ returned' = returned
  /\ pc' = "catch"
  /\ error' = e

\* await page.goto(this.config.webClientUrl, ...)
Goto ==
  /\ pc = "goto"
  /\ Start("goto")
  /\ \E ok \in BOOLEAN : IF ok THEN Return("goto") ELSE Throw("NavigationFailure")
  /\ UNCHANGED <<run, config, overrides, catchVars, chatVars, leaveVars, modVars, logVars,
                 surface, leaveButton, monVars, shots, debugShots, admVars, resVars>>

\* acceptCookies: the click succeeds or its failure is caught
AcceptCookies ==
  /\ pc = "acceptCookies"
  /\ Start("acceptCookies")
  /\ \E clicked \in BOOLEAN : Return("acceptCookies")
  /\ UNCHANGED <<run, config, overrides, catchVars, chatVars, leaveVars, modVars, logVars,
                 surface, leaveButton, monVars, shots, debugShots, admVars, resVars>>

\* resolveSurface
ResolveSurface ==
  /\ pc = "resolveSurface"
  /\ Start("resolveSurface")
  /\ \E threw, iframeHandle, contentFrame, namedFrame \in BOOLEAN :
       IF threw
       THEN Throw("PlaywrightError") /\ surface' = surface
       ELSE /\ Return("resolveSurface")
            /\ surface' = IF iframeHandle /\ contentFrame THEN "iframe"
                          ELSE IF namedFrame THEN "namedFrame" ELSE "page"
  /\ UNCHANGED <<run, config, overrides, catchVars, chatVars, leaveVars, modVars, logVars,
                 leaveButton, monVars, shots, debugShots, admVars, resVars>>

\* fillDisplayName
FillDisplayName ==
  /\ pc = "fillDisplayName"
  /\ Start("fillDisplayName")
  /\ \E o \in {"ok", "waitForTimeout", "fillFailed"} :
       CASE o = "ok" -> Return("fillDisplayName")
         [] o = "waitForTimeout" -> Throw("NameEntryTimeout")
         [] OTHER -> Throw("PlaywrightError")
  /\ UNCHANGED <<run, config, overrides, catchVars, chatVars, leaveVars, modVars, logVars,
                 surface, leaveButton, monVars, shots, debugShots, admVars, resVars>>

(***************************************************************************)
(* waitForAdmission                                                        *)
(***************************************************************************)
IndicatorNames ==
  {"leaveButton", "waitingText", "joinAudioButton", "participantsButton",
   "chatButton", "videoButton"}

\* an isVisible() probe resolves to visible or hidden, or its promise is rejected
ProbeOutcomes == {"visible", "hidden", "rejected"}

\* checks.filter(r => r.status === 'fulfilled').map(r => r.value)
visibilityState(ind) == {n \in IndicatorNames : ind[n] # "rejected"}

\* inMeetingButtons with the leave control counted too
inMeetingButtons_CountsLeave(ind) ==
  {n \in visibilityState(ind) :
     /\ n \in {"leaveButton", "joinAudioButton", "participantsButton", "chatButton",
               "videoButton"}
     /\ ind[n] = "visible"}

\* const inMeetingButtons = visibilityState.filter(...)
inMeetingButtons(ind) ==
  {n \in visibilityState(ind) :
     /\ n \in {"joinAudioButton", "participantsButton", "chatButton", "videoButton"}
     /\ ind[n] = "visible"}

\* if (inMeetingButtons.length >= 2)
InMeetingDetected(ind) == Cardinality(inMeetingButtons(ind)) >= 2

pollInterval == 1000

\* Math.floor(a / b) + 1 in place of Math.ceil
Ceil_FloorPlusOne(a, b) == (a \div b) + 1

\* Math.ceil(a / b) for positive integers
Ceil(a, b) == IF a % b = 0 THEN a \div b ELSE (a \div b) + 1

\* const maxAttempts = Math.ceil(this.config.lobbyTimeoutMs / pollInterval)
maxAttempts == Ceil(config.lobbyTimeoutMs, pollInterval)

\* the history of a waitForAdmission call, kept when rec
Record(rec, r) == admOut' = IF rec THEN r ELSE admOut

\* waitForAdmission up to the for loop: settle wait, six parallel probes, shortcut
WaitForAdmissionProbe(rec) ==
  /\ pc = "waitForAdmission"
  /\ Start("waitForAdmission")
  /\ \E settled \in BOOLEAN, ind \in [IndicatorNames -> ProbeOutcomes] :
       IF ~settled
       THEN /\ Throw("PlaywrightError")
            /\ UNCHANGED <<leaveButton, attempt>>
            /\ Record(rec, [admOut EXCEPT !.result = "settleFailed"])
       ELSE IF InMeetingDetected(ind)
       THEN /\ leaveButton' = TRUE
            /\ Return("waitForAdmission")
            /\ attempt' = 0
            /\ Record(rec, [admOut EXCEPT !.indicators = Some(ind), !.result = "shortcut"])
       ELSE /\ leaveButton' = TRUE
            /\ attempt' = 1
            /\ pc' = "lobbyWait"
            /\ UNCHANGED <<returned, error>>
            /\ Record(rec, [admOut EXCEPT !.indicators = Some(ind), !.result = "polling"])
  /\ UNCHANGED <<run, config, overrides, catchVars, chatVars, leaveVars, modVars, logVars,
                 surface, monVars, shots, debugShots, resVars>>

\* const hasError = await surface.locator(...).isVisible().catch(() => false)
hasError(probe) == probe = "visible"

\* the terminal-state text consulted before the leave button
PollVerdict_TerminalFirst(wait, probe) ==
  IF hasError(probe) THEN "terminated"
  ELSE IF wait = "visible" THEN "admitted"
  ELSE "retry"

\* one iteration of the for loop: return when waitFor goes through; in its
\* catch, throw when the terminal-state text is visible
PollVerdict(wait, probe) ==
  IF wait = "visible" THEN "admitted"
  ELSE IF hasError(probe) THEN "terminated"
  ELSE "retry"

\* one iteration of the for loop: waitFor the leave button, else snapshot and
\* the check for terminal-state text
LobbyPoll(rec) ==
  /\ pc = "lobbyWait"
  /\ attempt <= maxAttempts
  /\ \E wait \in {"visible", "timeout"}, probe \in {"visible", "hidden", "error"} :
       LET checked == IF wait = "visible" THEN 0 ELSE 1
           polled == [admOut EXCEPT !.polls = @ + 1, !.checks = @ + checked,
                                    !.terminalSeen = @ \/ (checked = 1 /\ probe = "visible")]
       IN CASE PollVerdict(wait, probe) = "admitted" ->
                 /\ Return("waitForAdmission")
                 /\ attempt' = 0
                 /\ debugShots' = debugShots
                 /\ Record(rec, [polled EXCEPT !.result = "admitted"])
            [] PollVerdict(wait, probe) = "retry" ->
                 /\ attempt' = attempt + 1
                 /\ UNCHANGED <<pc, returned, error, debugShots>>
                 /\ Record(rec, polled)
            [] OTHER ->
                 /\ debugShots' = Append(debugShots, "meeting-error-state")
                 /\ Throw("MeetingTerminated")
                 /\ attempt' = 0
                 /\ Record(rec, [polled EXCEPT !.result = "terminated"])
  /\ UNCHANGED <<run, config, overrides, catchVars, chatVars, leaveVars, modVars, logVars,
                 surface, leaveButton, monVars, stages, shots, resVars>>

\* the for loop ends without admission: debug screenshot, lobby-timeout error
LobbyTimeout(rec) ==
  /\ pc = "lobbyWait"
  /\ ~(attempt <= maxAttempts)
  /\ debugShots' = Append(debugShots, "lobby-timeout")
  /\ Throw("LobbyTimeout")
  /\ attempt' = 0
  /\ Record(rec, [admOut EXCEPT !.result = "timeout"])
  /\ UNCHANGED <<run, config, overrides, catchVars, chatVars, leaveVars, modVars, logVars,
                 surface, leaveButton, monVars, stages, shots, resVars>>

(***************************************************************************)
(* dismissBlockingModals                                                   *)
(***************************************************************************)
\* the outcomes of the awaited calls of one dismissBlockingModals call: a
\* count is None when overlayLocator.count() rejects
ModalInputs ==
  [initialCount : {None, Some(0), Some(1)},
   clicked : BOOLEAN,
   escape : {"ok", "throw"},
   settle : {"ok", "throw"},
   remaining : {None, Some(0), Some(1)},
   remove : {"ok", "throw"},
   settleAfterRemove : {"ok", "throw"}]

\* the portals removed whatever the re-count says
ForceRemove_Always(remaining) == TRUE

\* if (remaining > 0)
ForceRemove(remaining) == remaining > 0

\* dismissBlockingModals on these outcomes: whether it raised, the awaited
\* calls it made, and whether an overlay was still counted
dismissBlockingModals(in) ==
  IF in.initialCount = None
  THEN [raised |-> TRUE, log |-> <<"count">>, residual |-> FALSE]
  ELSE IF in.initialCount[1] = 0
  THEN [raised |-> FALSE, log |-> <<"count">>, residual |-> FALSE]
  ELSE IF in.settle = "throw"
  THEN [raised |-> TRUE, log |-> <<"count", "clicks", "escape", "settle">>,
        residual |-> FALSE]
  ELSE IF in.remaining = None
  THEN [raised |-> TRUE, log |-> <<"count", "clicks", "escape", "settle", "recount">>,
        residual |-> FALSE]
  ELSE IF ForceRemove(in.remaining[1])
  THEN [raised |-> in.settleAfterRemove = "throw",
        log |-> <<"count", "clicks", "escape", "settle", "recount", "remove", "settle">>,
        residual |-> TRUE]
  ELSE [raised |-> FALSE, log |-> <<"count", "clicks", "escape", "settle", "recount">>,
        residual |-> FALSE]

\* one call of dismissBlockingModals from the stage at pc, on the inputs
\* drawn: when it raises, the stage raises
DismissModals ==
  /\ modIn # None
  /\ modOut = None
  /\ modOut' = Some(dismissBlockingModals(modIn[1]))
  /\ stages' = Append(stages, pc)
  /\ IF dismissBlockingModals(modIn[1]).raised
     THEN Throw("PlaywrightError")
     ELSE UNCHANGED <<pc, error, returned>>
  /\ UNCHANGED <<run, config, overrides, catchVars, chatVars, leaveVars, surface,
                 leaveButton, monVars, shots, debugShots, admVars, resVars, modIn, logVars>>

(***************************************************************************)
(* submitJoin                                                              *)
(***************************************************************************)
\* the candidates array of submitJoin
NumJoinCandidates == 3

\* what a call of dismissBlockingModals can come to
ModalRuns == {dismissBlockingModals(in) : in \in ModalInputs}

\* outcomes of the awaited calls of submitJoin: isVisible() of each candidate
\* (a rejected probe is caught and reads as not visible), click({timeout}) of
\* each candidate, press('Enter') on the body, waitForTimeout(200)
JoinInputs ==
  [visible : [1..NumJoinCandidates -> BOOLEAN],
   click : [1..NumJoinCandidates -> {"ok", "threw"}],
   enter : {"ok", "threw"},
   wait : {"ok", "threw"}]

\* the Enter fallback and its wait, neither guarded
pressEnter(in) ==
  IF in.enter = "threw"
  THEN [raised |-> TRUE, log |-> << <<"enter", 0, "threw">> >>]
  ELSE [raised |-> in.wait = "threw",
        log |-> << <<"enter", 0, "ok">>, <<"wait", 200, in.wait>> >>]

\* the fallback loop from candidate i on: click and wait in one try block, the
\* catch going on to the next candidate
RECURSIVE fallbackClicks(_, _)
fallbackClicks(in, i) ==
  IF i > NumJoinCandidates THEN pressEnter(in)
  ELSE IF in.click[i] = "ok" /\ in.wait = "ok"
  THEN [raised |-> FALSE, log |-> << <<"click", i, "ok">>, <<"wait", 200, "ok">> >>]
  ELSE LET rest == fallbackClicks(in, i + 1)
           mine == IF in.click[i] = "ok"
                   THEN << <<"click", i, "ok">>, <<"wait", 200, "threw">> >>
                   ELSE << <<"click", i, "threw">> >>
       IN [raised |-> rest.raised, log |-> mine \o rest.log]

\* the loop over visibilityChecks: the first visible candidate is clicked and
\* waited for outside any try block
clickVisible(in) ==
  LET vis == {i \in 1..NumJoinCandidates : in.visible[i]}
      first == CHOOSE i \in vis : \A j \in vis : i <= j
  IN IF vis = {} THEN fallbackClicks(in, 1)
     ELSE IF in.click[first] = "threw"
     THEN [raised |-> TRUE, log |-> << <<"click", first, "threw">> >>]
     ELSE [raised |-> in.wait = "threw",
           log |-> << <<"click", first, "ok">>, <<"wait", 200, in.wait>> >>]

\* submitJoin on modal run m and outcomes in: whether it raised and the calls
\* it made
submitJoin(m, in) ==
  IF m.raised
  THEN [raised |-> TRUE, log |-> << <<"dismiss", 0, "threw">> >>]
  ELSE [raised |-> clickVisible(in).raised,
        log |-> << <<"dismiss", 0, "ok">> >> \o clickVisible(in).log]

\* the submitJoin stage of joinAndChat
SubmitJoin(rec) ==
  /\ pc = "submitJoin"
  /\ Start("submitJoin")
  /\ \E m \in ModalRuns, in \in JoinInputs :
       /\ IF submitJoin(m, in).raised
          THEN Throw("PlaywrightError")
          ELSE Return("submitJoin")
       /\ joinOut' = IF rec
                     THEN Some([modal |-> m, visible |-> in.visible,
                                out |-> submitJoin(m, in)])
                     ELSE joinOut
  /\ UNCHANGED <<run, config, overrides, catchVars, chatVars, leaveVars, modVars,
                 ladderLog, leaveLog, openOut,
                 surface, leaveButton, monVars, shots, debugShots, admVars, resVars>>

(***************************************************************************)
(* sendChatMessage                                                         *)
(***************************************************************************)
\* the chatButtons array of sendChatMessage
NumChatButtons == 5

\* outcomes of the awaited calls of the open step: for each chat button,
\* isVisible() (a rejected probe is caught and reads as hidden) and, where it is
\* visible, click({timeout: 500}); press('Alt+H') on the body; waitForTimeout(300)
ChatOpenInputs ==
  [button : [1..NumChatButtons -> {"hidden", "ok", "threw"}],
   press : {"ok", "threw"},
   wait : {"ok", "threw"}]

\* the loop over chatVisibilityChecks from button i on: each visible button is
\* clicked inside a try block until one click goes through
RECURSIVE chatClicks(_, _)
chatClicks(in, i) ==
  IF i > NumChatButtons THEN <<>>
  ELSE IF in.button[i] = "hidden" THEN chatClicks(in, i + 1)
  ELSE IF in.button[i] = "ok" THEN << <<"click", i, "ok">> >>
  ELSE << <<"click", i, "threw">> >> \o chatClicks(in, i + 1)

\* the shortcut pressed whatever the clicks did
ShortcutNeeded_Always(clickedChatButton) == TRUE

\* if (!clickedChatButton)
ShortcutNeeded(clickedChatButton) == ~clickedChatButton

\* the open step: the clicks, Alt+H when none went through, then 300 ms; the
\* press and the wait are not guarded
openChat(in) ==
  LET clicks == chatClicks(in, 1)
      clickedChatButton == \E i \in 1..Len(clicks) : clicks[i][3] = "ok"
      wait == << <<"wait", 300, in.wait>> >>
  IN IF ~ShortcutNeeded(clickedChatButton)
     THEN [raised |-> in.wait = "threw", log |-> clicks \o wait]
     ELSE IF in.press = "threw"
     THEN [raised |-> TRUE, log |-> Append(clicks, <<"press", 0, "threw">>)]
     ELSE [raised |-> in.wait = "threw",
           log |-> Append(clicks, <<"press", 0, "ok">>) \o wait]

\* sendChatMessage on modal run m and outcomes in, up to the resolution of
\* the chat input
openChatPanel(m, in) ==
  IF m.raised
  THEN [raised |-> TRUE, log |-> << <<"dismiss", 0, "threw">> >>]
  ELSE [raised |-> openChat(in).raised,
        log |-> << <<"dismiss", 0, "ok">> >> \o openChat(in).log]

\* sendChatMessage up to the resolution of the chat input: the modals are
\* dismissed, then a chat button is clicked or Alt+H is pressed, then 300 ms
SendChatMessage(rec) ==
  /\ pc = "sendChatMessage"
  /\ Start("sendChatMessage")
  /\ IF config.messageText = <<>>
     THEN Return("sendChatMessage") /\ openOut' = openOut
     ELSE \E m \in ModalRuns, in \in ChatOpenInputs :
            /\ IF openChatPanel(m, in).raised
               THEN Throw("PlaywrightError")
               ELSE pc' = "resolveChatInput" /\ UNCHANGED <<returned, error>>
            /\ openOut' = IF rec
                          THEN Some([button |-> in.button, out |-> openChatPanel(m, in)])
                          ELSE openOut
  /\ UNCHANGED <<run, config, overrides, catchVars, chatVars, leaveVars, modVars,
                 ladderLog, leaveLog, joinOut,
                 surface, leaveButton, monVars, shots, debugShots, admVars, resVars>>

\* const resolvedInput = await this.resolveChatInput(surface): a locator or
\* undefined, never an exception
ResolveChatInput ==
  /\ pc = "resolveChatInput"
  /\ \E found \in BOOLEAN :
       /\ resolvedInput' = found
       /\ pc' = IF found THEN "fillChatInput" ELSE "tryActivateChatInput"
       /\ strategy' = IF found THEN 0 ELSE 1
  /\ UNCHANGED <<run, config, overrides, catchVars, sends, activatedBy, leaveVars, modVars, logVars,
                 error, surface, leaveButton, monVars, stages, returned, shots,
                 debugShots, admVars, resVars>>

NumStrategies == 7

\* what the try block of strategy k can do: strategy 5 calls nothing that throws
StrategyOutcomes(k) ==
  IF k = 5 THEN {"found", "notFound"} ELSE {"found", "notFound", "threw"}

\* the ladder given up at the first strategy that throws
LadderNext_ThrowAborts(k, o) ==
  IF o = "found" THEN 0 ELSE IF o = "threw" THEN NumStrategies + 1 ELSE k + 1

\* what follows strategy k ending as o: 0 for return true, the next strategy
\* otherwise (each try block is followed by the next one, and the last by
\* return false)
LadderNext(k, o) == IF o = "found" THEN 0 ELSE k + 1

\* strategy k of tryActivateChatInput; after the last one the function returns
\* false and sendChatMessage captures diagnostics and throws
TryActivateChatInput(rec) ==
  /\ pc = "tryActivateChatInput"
  /\ \E o \in StrategyOutcomes(strategy) :
       /\ ladderLog' = IF rec THEN Append(ladderLog, <<strategy, o>>) ELSE ladderLog
       /\ IF LadderNext(strategy, o) = 0
          THEN /\ activatedBy' = strategy
               /\ strategy' = 0
               /\ pc' = "fillChatInput"
               /\ UNCHANGED <<returned, error, debugShots>>
          ELSE IF LadderNext(strategy, o) <= NumStrategies
          THEN /\ strategy' = LadderNext(strategy, o)
               /\ UNCHANGED <<activatedBy, pc, returned, error, debugShots>>
          ELSE /\ strategy' = 0
               /\ debugShots' = Append(debugShots, "chat-input-missing")
               /\ Throw("ChatInputUnresolved")
               /\ UNCHANGED activatedBy
  /\ UNCHANGED <<run, config, overrides, catchVars, sends, resolvedInput, leaveVars, modVars,
                 leaveLog, joinOut, openOut, surface, leaveButton, monVars, stages,
                 shots, admVars, resVars>>

\* the fill and the Enter key-press reported as done whatever they did
SendOutcome_SwallowsErrors(input, fill, press) == "sent"

\* lines 363-368: finalInput, fill, press
SendOutcome(input, fill, press) ==
  IF ~input THEN "disappeared"
  ELSE IF fill = "throw" \/ press = "throw" THEN "threw"
  ELSE "sent"

\* the text is in the chat: both the fill and the Enter key-press were done
Submitted(input, fill, press) == input /\ fill = "ok" /\ press = "ok"

\* const finalInput = resolvedInput || await this.resolveChatInput(surface),
\* then the fill and the Enter key-press; the locals end with a normal return
FillChatInput ==
  /\ pc = "fillChatInput"
  /\ \E again \in BOOLEAN, fill, press \in {"ok", "throw"} :
       LET input == resolvedInput \/ again
           o == SendOutcome(input, fill, press)
       IN /\ sends' = IF Submitted(input, fill, press)
                      THEN sends (+) SetToBag({<<"sendChatMessage", config.messageText>>})
                      ELSE sends
          /\ CASE o = "sent" ->
                    /\ Return("sendChatMessage")
                    /\ resolvedInput' = FALSE
                    /\ activatedBy' = 0
               [] o = "disappeared" ->
                    Throw("ChatInputDisappeared") /\ UNCHANGED <<resolvedInput, activatedBy>>
               [] OTHER ->
                    Throw("PlaywrightError") /\ UNCHANGED <<resolvedInput, activatedBy>>
  /\ UNCHANGED <<run, config, overrides, catchVars, strategy, leaveVars, modVars, logVars, surface,
                 leaveButton, monVars, stages, shots, debugShots, admVars, resVars>>

(***************************************************************************)
(* monitorChatMessages                                                     *)
(***************************************************************************)
MaxBatch == 2

\* the element lists a poll can find: at most MaxBatch elements of U, in any
\* order, repeats included
Batches(U) == UNION {[1..n -> U] : n \in 0..MaxBatch}

\* the ceiling test with > for >=
CeilingReached_OffByOne(n) == n > maxConsecutiveErrors

\* if (consecutiveErrors >= maxConsecutiveErrors)
CeilingReached(n) == n >= maxConsecutiveErrors

\* the catch block of the while loop, entered with the counter at c after
\* f failures in a row
MonitorCatch(c, f) ==
  /\ consecutiveErrors' = c + 1
  /\ failRun' = f + 1
  /\ IF CeilingReached(c + 1)
     THEN Throw("MonitoringFailed")
     ELSE \E waited \in BOOLEAN :
            IF waited
            THEN pc' = "monitorWhile" /\ UNCHANGED <<returned, error>>
            ELSE Throw("PlaywrightError")

\* monitorChatMessages is called: the seen set and the counter are created
MonitorStart ==
  /\ pc = "monitorChatMessages"
  /\ Start("monitorChatMessages")
  /\ seenMessages' = {}
  /\ consecutiveErrors' = 0
  /\ pc' = "monitorWhile"
  /\ UNCHANGED <<run, config, overrides, catchVars, chatVars, leaveVars, modVars, logVars,
                 error, surface, leaveButton, pending, returned, reached,
                 replies, failRun, shots, debugShots, admVars, resVars>>

\* one poll: surface.evaluate returns the messages of the elements found, or throws
MonitorPoll(U) ==
  /\ pc = "monitorWhile"
  /\ \/ \E els \in Batches(U) :
          /\ pending' = ExtractAll(els)
          /\ pc' = "monitorFor"
          /\ UNCHANGED <<consecutiveErrors, failRun, returned, error>>
     \/ /\ MonitorCatch(consecutiveErrors, failRun)
        /\ pending' = <<>>
  /\ UNCHANGED <<run, config, overrides, catchVars, chatVars, leaveVars, modVars, logVars,
                 surface, leaveButton, seenMessages, stages, reached, replies,
                 shots, debugShots, admVars, resVars>>

\* the outcomes of the awaited calls of one sendQuickReply call
ReplyInputs == [input : BOOLEAN, fill : {"ok", "throw"}, press : {"ok", "throw"}]

\* the reply calls that go through
ReplySent == {in \in ReplyInputs : in.input /\ in.fill = "ok" /\ in.press = "ok"}

\* sendQuickReply without its try/catch
sendQuickReply_Unguarded(in) ==
  IF ~in.input THEN "noInput"
  ELSE IF in.fill = "throw" \/ in.press = "throw" THEN "raised"
  ELSE "sent"

\* sendQuickReply: the whole body is inside try/catch, and the catch only logs
sendQuickReply(in) ==
  IF ~in.input THEN "noInput"
  ELSE IF in.fill = "throw" \/ in.press = "throw" THEN "failed"
  ELSE "sent"

\* the key added only once the message is known not to be the bot's own
markSeen_UnlessOwn(seen, msg) ==
  IF IsBotOwnMessage(msg) THEN seen ELSE seen \cup {MessageKey(msg)}

\* the key never added
markSeen_Never(seen, msg) == seen

\* seenMessages.add(messageKey), the first statement after the seen test
markSeen(seen, msg) == seen \cup {MessageKey(msg)}

\* the quit test made before the self test
Disposition_QuitFirst(msg) ==
  IF IsQuitCommand(msg) THEN "quit"
  ELSE IF IsBotOwnMessage(msg) THEN "skip"
  ELSE "reply"

\* what the loop body does with a message not seen before: continue on the
\* bot's own message, else return on quit, else reply
Disposition(msg) ==
  IF IsBotOwnMessage(msg) THEN "skip"
  ELSE IF IsQuitCommand(msg) THEN "quit"
  ELSE "reply"

\* the body of the for loop for the next message of the poll, the awaited
\* calls of sendQuickReply ending as one of R
MonitorMessage(R) ==
  /\ pc = "monitorFor"
  /\ pending # <<>>
  /\ LET msg == Head(pending)
         messageKey == MessageKey(msg)
         skip == UNCHANGED <<replies, sends, pc, returned, error,
                             consecutiveErrors, failRun>>
     IN /\ reached' = reached \cup {msg}
        /\ IF messageKey \in seenMessages
           THEN seenMessages' = seenMessages /\ pending' = Tail(pending) /\ skip
           ELSE /\ seenMessages' = markSeen(seenMessages, msg)
                /\ IF Disposition(msg) = "skip"
                   THEN pending' = Tail(pending) /\ skip
                   ELSE IF Disposition(msg) = "quit"
                   THEN /\ Return("monitorChatMessages")
                        /\ pending' = Tail(pending)
                        /\ UNCHANGED <<replies, sends, consecutiveErrors, failRun>>
                   ELSE \E in \in R :
                          /\ replies' = replies (+) SetToBag({<<msg, ReplyToken(msg)>>})
                          /\ sends' =
                               IF in.input /\ in.fill = "ok" /\ in.press = "ok"
                               THEN sends (+) SetToBag({<<"sendQuickReply", ReplyToken(msg)>>})
                               ELSE sends
                          /\ IF sendQuickReply(in) = "raised"
                             THEN /\ MonitorCatch(consecutiveErrors, failRun)
                                  /\ pending' = <<>>
                             ELSE /\ pending' = Tail(pending)
                                  /\ UNCHANGED <<pc, returned, error,
                                                 consecutiveErrors, failRun>>
  /\ UNCHANGED <<run, config, overrides, catchVars, resolvedInput, strategy, activatedBy,
                 leaveVars, modVars, logVars, surface, leaveButton, stages, shots, debugShots,
                 admVars, resVars>>

\* after the for loop: the counter is reset and the loop waits 500 ms
MonitorBatchDone ==
  /\ pc = "monitorFor"
  /\ pending = <<>>
  /\ \E waited \in BOOLEAN :
       IF waited
       THEN /\ consecutiveErrors' = 0
            /\ failRun' = 0
            /\ pc' = "monitorWhile"
            /\ UNCHANGED <<returned, error>>
       ELSE MonitorCatch(0, 0)
  /\ UNCHANGED <<run, config, overrides, catchVars, chatVars, leaveVars, modVars, logVars,
                 surface, leaveButton, seenMessages, pending, stages, reached,
                 replies, shots, debugShots, admVars, resVars>>

(***************************************************************************)
(* leaveMeeting                                                            *)
(***************************************************************************)
NumLeaveStrategies == 4

\* leaveMeeting up to the strategy loop: await surface.waitForTimeout(
\* this.config.postLeaveDelayMs), outside any try
LeaveMeeting ==
  /\ pc = "leaveMeeting"
  /\ Start("leaveMeeting")
  /\ \E waited \in BOOLEAN :
       IF waited
       THEN /\ pc' = "leaveStrategy"
            /\ leaveIndex' = 1
            /\ leftSuccessfully' = FALSE
            /\ UNCHANGED <<returned, error>>
       ELSE Throw("PlaywrightError") /\ UNCHANGED leaveVars
  /\ UNCHANGED <<run, config, overrides, catchVars, chatVars, modVars, logVars, surface, leaveButton,
                 monVars, shots, debugShots, admVars, resVars>>

\* one turn of the for loop over leaveStrategies, and what follows the loop:
\* a strategy that throws is followed by the next one, and so is one whose
\* 300 ms wait throws after leftSuccessfully was set
LeaveStrategy(rec) ==
  /\ pc = "leaveStrategy"
  /\ IF leaveIndex > NumLeaveStrategies
     THEN /\ leaveIndex' = 0
          /\ leftSuccessfully' = leftSuccessfully
          /\ leaveLog' = leaveLog
          /\ IF leftSuccessfully
             THEN pc' = "leaveConfirm" /\ UNCHANGED <<returned, error>>
             ELSE Return("leaveMeeting")
     ELSE \E o \in {"threw", "left", "leftWaitThrew"} :
            /\ leftSuccessfully' = (leftSuccessfully \/ o # "threw")
            /\ leaveIndex' = IF o = "left" THEN 0 ELSE leaveIndex + 1
            /\ pc' = IF o = "left" THEN "leaveConfirm" ELSE pc
            /\ leaveLog' = IF rec THEN Append(leaveLog, <<"strategy", leaveIndex, o>>)
                           ELSE leaveLog
            /\ UNCHANGED <<returned, error>>
  /\ UNCHANGED <<run, config, overrides, catchVars, chatVars, modVars, ladderLog, joinOut,
                 openOut, surface, leaveButton, monVars, stages, shots, debugShots,
                 admVars, resVars>>

NumConfirmButtons == 3

RECURSIVE ConfirmLog(_, _)
\* for (const btn of confirmButtons) from button i on: the click is attempted,
\* and the loop goes on to the next button only when that click throws
ConfirmLog(clicks, i) ==
  IF i > Len(clicks) THEN <<>>
  ELSE IF clicks[i] = "ok" THEN << <<"confirm", i, "ok">> >>
  ELSE << <<"confirm", i, "threw">> >> \o ConfirmLog(clicks, i + 1)

\* the confirmation buttons: the first click that goes through returns, and
\* so does the end of the list
LeaveConfirm(rec) ==
  /\ pc = "leaveConfirm"
  /\ \E clicks \in [1..NumConfirmButtons -> {"ok", "throw"}] :
       leaveLog' = IF rec THEN leaveLog \o ConfirmLog(clicks, 1) ELSE leaveLog
  /\ Return("leaveMeeting")
  /\ UNCHANGED <<run, config, overrides, catchVars, chatVars, leaveVars, modVars, ladderLog,
                 joinOut, openOut, surface, leaveButton, monVars, stages, shots,
                 debugShots, admVars, resVars>>

\* this.logger.info('Workflow completed'), and joinAndChat returns
Completed ==
  /\ pc = "completed"
  /\ Start("completed")
  /\ Return("completed")
  /\ UNCHANGED <<run, config, overrides, catchVars, chatVars, leaveVars, modVars, logVars,
                 surface, leaveButton, monVars, shots, debugShots, admVars, resVars>>

\* the catch rethrowing the screenshot's own error when the screenshot fails
Rethrown_ScreenshotError(e, closed, shot) ==
  IF ~closed /\ shot = "failed" THEN "ScreenshotError" ELSE e

\* throw error (lines 137 and 143): the rejection of page.screenshot is
\* swallowed by .catch(() => undefined)
Rethrown(e, closed, shot) == e

\* the catch of joinAndChat: a screenshot unless the page is closed, then rethrow
Catch ==
  /\ pc = "catch"
  /\ \E closed \in BOOLEAN, shot \in {"saved", "failed"} :
       /\ pageClosed' = Some(closed)
       /\ failureShot' = IF closed THEN "none" ELSE shot
       /\ shots' = IF closed THEN shots ELSE shots + 1
       /\ error' = Rethrown(error, closed, shot)
  /\ pc' = "thrown"
  /\ UNCHANGED <<run, config, overrides, chatVars, leaveVars, modVars, logVars, surface,
                 leaveButton, monVars, stages, returned, debugShots, admVars, resVars>>

(***************************************************************************)
(* run: launch, signal handlers, the try block, the finally block          *)
(***************************************************************************)
\* const signals: NodeJS.Signals[] = ['SIGINT', 'SIGTERM']
signals == {"SIGINT", "SIGTERM"}

\* run() before chromium.launch
NotLaunched ==
  [handlers |-> {}, closes |-> 0, closeFailed |-> FALSE, outcome |-> None]

\* run() inside its try block, at the call of joinAndChat
InWorkflow == [NotLaunched EXCEPT !.handlers = signals]

\* everything but pc, error and run
flowVars ==
  <<config, overrides, catchVars, chatVars, leaveVars, modVars, logVars, surface,
    leaveButton, monVars, stages, returned, shots, debugShots, admVars, resVars>>

\* the statements at which the try block of run() is left
WorkflowOver == {"done", "thrown", "tryFailed"}

\* run() rejecting with the error of browser.close() when the close fails
RunOutcome_CloseFailureWins(e, close) == IF close = "failed" THEN "CloseError" ELSE e

\* what run() ends with after the finally block, "none" for a normal return:
\* the rejection of browser.close() is caught and logged
RunOutcome(e, close) == e

\* chromium.launch, then registerSignalHandlers: process.once for each signal
Launch ==
  /\ pc = "launch"
  /\ \E launched \in BOOLEAN :
       IF launched
       THEN /\ run' = [run EXCEPT !.handlers = signals]
            /\ pc' = "newContext"
            /\ error' = error
       ELSE /\ run' = [run EXCEPT !.outcome = Some("LaunchError")]
            /\ pc' = "exited"
            /\ error' = "LaunchError"
  /\ UNCHANGED flowVars

\* browser.newContext, setDefaultTimeout, context.newPage, inside the try block
NewContext ==
  /\ pc = "newContext"
  /\ \E ok \in BOOLEAN :
       IF ok
       THEN pc' = "goto" /\ error' = error
       ELSE pc' = "tryFailed" /\ error' = "BrowserError"
  /\ UNCHANGED <<run, flowVars>>

\* the finally block: cleanup() removes the listeners, browser.close() is
\* awaited, then run() ends as the try block did
Finally ==
  /\ pc \in WorkflowOver
  /\ \E close \in {"closed", "failed"} :
       run' = [handlers |-> run.handlers \ signals,
               closes |-> run.closes + 1,
               closeFailed |-> close = "failed",
               outcome |-> Some(RunOutcome(error, close))]
  /\ pc' = "exited"
  /\ UNCHANGED <<error, flowVars>>

\* the handler of a termination signal, which process.once has removed for
\* that signal: browser.close() with its rejection swallowed, process.exit(1)
Signal ==
  /\ pc \notin WorkflowOver \cup {"launch", "exited", "killed"}
  /\ \E sig \in run.handlers, close \in {"closed", "failed"} :
       run' = [handlers |-> run.handlers \ {sig},
               closes |-> run.closes + 1,
               closeFailed |-> close = "failed",
               outcome |-> Some("exit1")]
  /\ pc' = "killed"
  /\ UNCHANGED <<error, flowVars>>

(***************************************************************************)
(* findChatInputCandidates: parallel probe, then sequential fallback       *)
(***************************************************************************)
\* the length of the candidate list: the code's list has 11 locators, and
\* the two scans treat every position alike
NumCandidates == 4

\* const visible = await locator.isVisible().catch(() => false)
ProbeVisible(p) == IF p = "error" THEN FALSE ELSE p = "visible"

\* the scan keeping the last visible result instead of returning at the first
ScanProbes_Last(probes, i) ==
  LET V == {j \in i..Len(probes) : ProbeVisible(probes[j])}
  IN IF V = {} THEN 0 ELSE CHOOSE j \in V : \A k \in V : k <= j

RECURSIVE ScanProbes(_, _)
\* for (const result of visibilityChecks): the first fulfilled, visible result
\* from index i on, 0 when there is none
ScanProbes(probes, i) ==
  IF i > Len(probes) THEN 0
  ELSE IF ProbeVisible(probes[i]) THEN i
  ELSE ScanProbes(probes, i + 1)

RECURSIVE ScanWaits(_, _)
\* for (const [index, inputLocator] of candidates.entries()): the first waitFor
\* that does not throw, from index i on, 0 when all throw
ScanWaits(waits, i) ==
  IF i > Len(waits) THEN 0
  ELSE IF waits[i] = "visible" THEN i
  ELSE ScanWaits(waits, i + 1)

\* the index (from 1) of the locator returned, 0 for undefined, and the phase
findChatInputCandidates(probes, waits) ==
  IF ScanProbes(probes, 1) # 0
  THEN [index |-> ScanProbes(probes, 1), phase |-> "parallel"]
  ELSE IF ScanWaits(waits, 1) # 0
  THEN [index |-> ScanWaits(waits, 1), phase |-> "fallback"]
  ELSE [index |-> 0, phase |-> "none"]

\* candidates.map(async (locator, index) => ...isVisible()...): every candidate
\* is probed, once
ProbeLog(probes) == [i \in 1..Len(probes) |-> <<"probe", i>>]

RECURSIVE WaitLog(_, _)
\* the fallback loop from candidate i on: the candidate is awaited, and the
\* loop goes on to the next one only when that wait throws
WaitLog(waits, i) ==
  IF i > Len(waits) THEN <<>>
  ELSE IF waits[i] = "visible" THEN << <<"wait", i>> >>
  ELSE << <<"wait", i>> >> \o WaitLog(waits, i + 1)

\* the fallback loop run whatever the probes found
CandidateLog_AlwaysFallback(probes, waits) == ProbeLog(probes) \o WaitLog(waits, 1)

\* the locator calls of one findChatInputCandidates call, in order
CandidateLog(probes, waits) ==
  ProbeLog(probes) \o (IF ScanProbes(probes, 1) # 0 THEN <<>> ELSE WaitLog(waits, 1))

\* one call of findChatInputCandidates on the inputs drawn
Resolve ==
  /\ resIn # None
  /\ resOut = None
  /\ resOut' = Some(findChatInputCandidates(resIn[1].probes, resIn[1].waits))
  /\ resLog' = CandidateLog(resIn[1].probes, resIn[1].waits)
  /\ UNCHANGED <<run, config, overrides, catchVars, chatVars, leaveVars, modVars, logVars,
                 pc, error, surface, leaveButton, monVars, stages, returned,
                 shots, debugShots, admVars, resIn>>

(***************************************************************************)
(* Specifications                                                          *)
(***************************************************************************)
\* chat elements a poll may find
El_al_bc == Element(Some(S_al), Some(S_bc), S_al \o S_bc)
El_alb_c == Element(Some(S_alb), Some(S_c), S_alb \o S_c)
El_Bo_yo == Element(Some(S_Bo), Some(S_yo), S_Bo \o S_yo)
El_al_hiBO == Element(Some(S_al), None, <<" ">> \o S_hiBO \o <<" ">>)
El_al_Quit == Element(Some(<<" ">> \o S_al), Some(<<" ">> \o S_Quit \o <<" ">>), S_al \o S_Quit)
El_roger == Element(None, Some(S_roger), S_roger)
El_blank == Element(None, Some(<<" ">>), <<" ", " ">>)
El_Fr_ImIn == Element(Some(S_FridayBOT), Some(S_ImIn), S_FridayBOT \o S_ImIn)

Elements ==
  {El_al_bc, El_alb_c, El_Bo_yo, El_al_hiBO, El_al_Quit, El_roger, El_blank}

FlowElements == {El_Fr_ImIn, El_al_Quit, El_al_hiBO}

El_Bo_Quit == Element(Some(S_Bo), Some(S_Quit), S_Bo \o S_Quit)
El_Bo_hiBO == Element(Some(S_Bo), Some(S_hiBO), S_Bo \o S_hiBO)

SelfElements == {El_Bo_Quit, El_Bo_hiBO, El_al_Quit, El_al_hiBO}

FlowLobbies == {None, Some(1500)}
Lobbies == {None, Some(0), Some(1), Some(pollInterval), Some(pollInterval + 1),
            Some(MaxLobbyTimeoutMs)}

NoAdmission ==
  [indicators |-> None, polls |-> 0, checks |-> 0, terminalSeen |-> FALSE,
   result |-> "none"]

\* the state of a ZoomRunner constructed with configuration c, before joinAndChat
Constructed(c) ==
  /\ config = c
  /\ pc = "goto"
  /\ error = "none"
  /\ surface = "none"
  /\ leaveButton = FALSE
  /\ seenMessages = {}
  /\ consecutiveErrors = 0
  /\ pending = <<>>
  /\ stages = <<>>
  /\ returned = <<>>
  /\ reached = {}
  /\ replies = EmptyBag
  /\ failRun = 0
  /\ shots = 0
  /\ debugShots = <<>>
  /\ attempt = 0
  /\ admOut = NoAdmission
  /\ resIn = None
  /\ resOut = None
  /\ resLog = <<>>
  /\ pageClosed = None
  /\ failureShot = "none"
  /\ sends = EmptyBag
  /\ resolvedInput = FALSE
  /\ strategy = 0
  /\ activatedBy = 0
  /\ leftSuccessfully = FALSE
  /\ leaveIndex = 0
  /\ modIn = None
  /\ modOut = None
  /\ ladderLog = <<>>
  /\ leaveLog = <<>>
  /\ joinOut = None
  /\ openOut = None
  /\ run = InWorkflow

\* the overrides of Overrides(names, texts, lobbies) the schema accepts
ValidOverrides(names, texts, lobbies) ==
  {o \in Overrides(names, texts, lobbies) : SchemaOk(o)}

\* main(): parseCliOverrides, loadConfig, new ZoomRunner(config)
Init ==
  \E o \in ValidOverrides(NameOverrides, TextOverrides, FlowLobbies) :
    /\ overrides = o
    /\ Constructed(loadConfig(o))

Next ==
  \/ Goto
  \/ AcceptCookies
  \/ ResolveSurface
  \/ FillDisplayName
  \/ SubmitJoin(FALSE)
  \/ WaitForAdmissionProbe(FALSE)
  \/ LobbyPoll(FALSE)
  \/ LobbyTimeout(FALSE)
  \/ SendChatMessage(FALSE)
  \/ ResolveChatInput
  \/ TryActivateChatInput(FALSE)
  \/ FillChatInput
  \/ MonitorStart
  \/ MonitorPoll(FlowElements)
  \/ MonitorMessage(ReplyInputs)
  \/ MonitorBatchDone
  \/ LeaveMeeting
  \/ LeaveStrategy(FALSE)
  \/ LeaveConfirm(FALSE)
  \/ Completed
  \/ Catch

Spec == Init /\ [][Next]_vars

\* the session at the call of stage number n of StageOrder, every earlier
\* stage having returned
AtStage(c, n) ==
  /\ config = c
  /\ pc = StageOrder[n]
  /\ error = "none"
  /\ surface = "page"
  /\ leaveButton = (n > 6)
  /\ seenMessages = {}
  /\ consecutiveErrors = 0
  /\ pending = <<>>
  /\ stages = SubSeq(StageOrder, 1, n - 1)
  /\ returned = SubSeq(StageOrder, 1, n - 1)
  /\ reached = {}
  /\ replies = EmptyBag
  /\ failRun = 0
  /\ shots = 0
  /\ debugShots = <<>>
  /\ attempt = 0
  /\ admOut = NoAdmission
  /\ resOut = None
  /\ resLog = <<>>
  /\ overrides = [botName |-> Some(c.botName), messageText |-> Some(c.messageText),
                  monitorMessages |-> None, lobbyTimeoutMs |-> Some(c.lobbyTimeoutMs)]
  /\ pageClosed = None
  /\ failureShot = "none"
  /\ sends = IF n > 7 THEN SetToBag({<<"sendChatMessage", c.messageText>>}) ELSE EmptyBag
  /\ resolvedInput = FALSE
  /\ strategy = 0
  /\ activatedBy = 0
  /\ leftSuccessfully = FALSE
  /\ leaveIndex = 0
  /\ modOut = None
  /\ ladderLog = <<>>
  /\ leaveLog = <<>>
  /\ joinOut = None
  /\ openOut = None
  /\ run = InWorkflow

\* the monitoring loop alone, over the larger set of chat elements
InitMonitor ==
  /\ \E c \in Configs(NameOverrides, TextOverrides, {None}) : AtStage(c, 8)
  /\ resIn = None
  /\ modIn = None

\* every reply goes through here: what a failing reply does is followed in Spec
NextMonitor ==
  \/ MonitorStart
  \/ MonitorPoll(Elements)
  \/ MonitorMessage(ReplySent)
  \/ MonitorBatchDone

SpecMonitor == InitMonitor /\ [][NextMonitor]_vars

\* the monitoring loop over messages that carry the bot's name as sender and
\* a command as text
NextSelfFilter ==
  \/ MonitorStart
  \/ MonitorPoll(SelfElements)
  \/ MonitorMessage(ReplySent)
  \/ MonitorBatchDone

SpecSelfFilter == InitMonitor /\ [][NextSelfFilter]_vars

\* waitForAdmission alone, its inputs and polls recorded
InitAdmission ==
  /\ \E c \in Configs({None}, {None}, Lobbies) : AtStage(c, 6)
  /\ resIn = None
  /\ modIn = None

NextAdmission ==
  \/ WaitForAdmissionProbe(TRUE)
  \/ LobbyPoll(TRUE)
  \/ LobbyTimeout(TRUE)

SpecAdmission == InitAdmission /\ [][NextAdmission]_vars

\* the session has every fair chance to run: each await is bounded by a timeout
FairSpecAdmission == SpecAdmission /\ WF_vars(NextAdmission)

\* findChatInputCandidates alone: called from sendChatMessage on every outcome
\* of the probes and of the fallback waits
InitResolver ==
  /\ \E c \in Configs({None}, {None}, {None}) : AtStage(c, 7)
  /\ \E probes \in [1..NumCandidates -> {"visible", "hidden", "error"}],
        waits \in [1..NumCandidates -> {"visible", "timeout", "error"}] :
       resIn = Some([probes |-> probes, waits |-> waits])
  /\ modIn = None

NextResolver == Resolve

SpecResolver == InitResolver /\ [][NextResolver]_vars

\* the call has every fair chance to run: the probes are settled together and
\* each fallback wait has a 300 ms timeout
FairSpecResolver == SpecResolver /\ WF_vars(NextResolver)

\* the session inside sendChatMessage, about to run strategy 1 of
\* tryActivateChatInput: the primary resolution found no chat input
InLadder(c) ==
  /\ config = c
  /\ pc = "tryActivateChatInput"
  /\ error = "none"
  /\ surface = "page"
  /\ leaveButton = TRUE
  /\ seenMessages = {}
  /\ consecutiveErrors = 0
  /\ pending = <<>>
  /\ stages = SubSeq(StageOrder, 1, 7)
  /\ returned = SubSeq(StageOrder, 1, 6)
  /\ reached = {}
  /\ replies = EmptyBag
  /\ failRun = 0
  /\ shots = 0
  /\ debugShots = <<>>
  /\ attempt = 0
  /\ admOut = NoAdmission
  /\ resIn = None
  /\ resOut = None
  /\ resLog = <<>>
  /\ overrides = [botName |-> Some(c.botName), messageText |-> Some(c.messageText),
                  monitorMessages |-> None, lobbyTimeoutMs |-> Some(c.lobbyTimeoutMs)]
  /\ pageClosed = None
  /\ failureShot = "none"
  /\ sends = EmptyBag
  /\ resolvedInput = FALSE
  /\ strategy = 1
  /\ activatedBy = 0
  /\ leftSuccessfully = FALSE
  /\ leaveIndex = 0
  /\ modIn = None
  /\ modOut = None
  /\ ladderLog = <<>>
  /\ leaveLog = <<>>
  /\ joinOut = None
  /\ openOut = None
  /\ run = InWorkflow

\* tryActivateChatInput alone, the outcome of every strategy recorded
InitActivation == \E c \in Configs({None}, {None}, {None}) : InLadder(c)

NextActivation == TryActivateChatInput(TRUE)

SpecActivation == InitActivation /\ [][NextActivation]_vars

\* leaveMeeting alone, after monitoring returned, every strategy and every
\* confirmation click recorded
InitLeave ==
  /\ \E c \in Configs(NameOverrides, {None}, {None}) : AtStage(c, 9)
  /\ resIn = None
  /\ modIn = None

NextLeave ==
  \/ LeaveMeeting
  \/ LeaveStrategy(TRUE)
  \/ LeaveConfirm(TRUE)

SpecLeave == InitLeave /\ [][NextLeave]_vars

\* submitJoin alone, its awaited calls recorded
InitJoin ==
  /\ \E c \in Configs(NameOverrides, {None}, {None}) : AtStage(c, 5)
  /\ resIn = None
  /\ modIn = None

NextJoin == SubmitJoin(TRUE)

SpecJoin == InitJoin /\ [][NextJoin]_vars

\* the open step of sendChatMessage and the resolution that follows it, the
\* awaited calls recorded
InitChatOpen ==
  /\ \E c \in Configs({None}, TextOverrides, {None}) : AtStage(c, 7)
  /\ resIn = None
  /\ modIn = None

NextChatOpen ==
  \/ SendChatMessage(TRUE)
  \/ ResolveChatInput

SpecChatOpen == InitChatOpen /\ [][NextChatOpen]_vars

\* run() from its first statement: the launch, the workflow over a short
\* lobby wait and two chat messages, the finally block, and the termination
\* signals
RunElements == {El_al_Quit, El_al_hiBO}

InitRun ==
  \E c \in Configs({None}, {None}, {Some(1500)}) :
    /\ config = c
    /\ pc = "launch"
    /\ run = NotLaunched
    /\ overrides = [botName |-> None, messageText |-> None,
                    monitorMessages |-> None, lobbyTimeoutMs |-> Some(1500)]
    /\ error = "none"
    /\ surface = "none"
    /\ leaveButton = FALSE
    /\ seenMessages = {}
    /\ reached = {}
    /\ replies = EmptyBag
    /\ sends = EmptyBag
    /\ pending = <<>> /\ stages = <<>> /\ returned = <<>> /\ debugShots = <<>>
    /\ resLog = <<>> /\ ladderLog = <<>> /\ leaveLog = <<>>
    /\ consecutiveErrors = 0 /\ failRun = 0 /\ shots = 0 /\ attempt = 0
    /\ strategy = 0 /\ activatedBy = 0 /\ leaveIndex = 0
    /\ admOut = NoAdmission
    /\ resIn = None /\ resOut = None /\ pageClosed = None /\ modIn = None
    /\ modOut = None /\ joinOut = None /\ openOut = None
    /\ failureShot = "none"
    /\ resolvedInput = FALSE
    /\ leftSuccessfully = FALSE

NextRun ==
  \/ Launch
  \/ NewContext
  \/ Goto
  \/ AcceptCookies
  \/ ResolveSurface
  \/ FillDisplayName
  \/ SubmitJoin(FALSE)
  \/ WaitForAdmissionProbe(FALSE)
  \/ LobbyPoll(FALSE)
  \/ LobbyTimeout(FALSE)
  \/ SendChatMessage(FALSE)
  \/ ResolveChatInput
  \/ TryActivateChatInput(FALSE)
  \/ FillChatInput
  \/ MonitorStart
  \/ MonitorPoll(RunElements)
  \/ MonitorMessage(ReplySent)
  \/ MonitorBatchDone
  \/ LeaveMeeting
  \/ LeaveStrategy(FALSE)
  \/ LeaveConfirm(FALSE)
  \/ Completed
  \/ Catch
  \/ Finally
  \/ Signal

SpecRun == InitRun /\ [][NextRun]_vars

\* the finally block follows the try block without waiting for anything
FairSpecRun == SpecRun /\ WF_vars(Finally)

\* dismissBlockingModals alone, called from submitJoin or from sendChatMessage,
\* on every outcome of its awaited calls
InitModals ==
  /\ \E c \in Configs({None}, {None}, {None}), n \in {5, 7} : AtStage(c, n)
  /\ resIn = None
  /\ \E in \in ModalInputs : modIn = Some(in)

NextModals == DismissModals

SpecModals == InitModals /\ [][NextModals]_vars

(***************************************************************************)
(* Properties                                                              *)
(***************************************************************************)
Range(q) == {q[i] : i \in 1..Len(q)}

IsPrefix(p, q) == Len(p) <= Len(q) /\ SubSeq(q, 1, Len(p)) = p

Started(s) == s \in Range(stages)

Returned(s) == s \in Range(returned)

\* the order the specification gives the stages, monitoring only when enabled
ExpectedOrder ==
  IF config.monitorMessages
  THEN <<"goto", "acceptCookies", "resolveSurface", "fillDisplayName", "submitJoin",
         "waitForAdmission", "sendChatMessage", "monitorChatMessages", "leaveMeeting",
         "completed">>
  ELSE <<"goto", "acceptCookies", "resolveSurface", "fillDisplayName", "submitJoin",
         "waitForAdmission", "sendChatMessage", "leaveMeeting", "completed">>

C1_Sequential ==
  /\ IsPrefix(stages, ExpectedOrder)
  /\ IsPrefix(returned, stages)
  /\ Len(stages) - Len(returned) \in {0, 1}
  /\ error # "none" => (Len(stages) = Len(returned) + 1 /\ pc \in {"catch", "thrown"})

\* C1: the stages of joinAndChat start in the fixed order navigate, cookies,
\* surface, name, join, admission, chat send, monitoring, leave, completed; a
\* stage starts only when every earlier stage has returned normally; and once
\* a stage has raised an error no further stage is started.
C1_StagesInOrder ==
  /\ []C1_Sequential
  /\ [][error # "none" => stages' = stages]_vars

\* a run that went through every stage, each having returned normally
C1_Witness ==
  /\ pc = "done"
  /\ stages = ExpectedOrder
  /\ returned = ExpectedOrder

\* C2 as stated: once monitoring has started, leaveMeeting is attempted before
\* joinAndChat ends, on the quit command and also when monitoring aborts with
\* the monitoring-failed error (before that error is re-raised).
C2_LeaveAlwaysAttempted ==
  (/\ Started("monitorChatMessages")
   /\ \/ pc = "done"
      \/ pc = "thrown" /\ error = "MonitoringFailed")
  => Started("leaveMeeting")

\* C2 amended: leaveMeeting is attempted after monitorChatMessages returns
\* normally (the quit command), and only then: when monitoring aborts with an
\* error, leaveMeeting is not attempted and the error goes to the catch of
\* joinAndChat.
C2_LeaveAfterNormalReturn ==
  /\ (Returned("monitorChatMessages") /\ pc # "leaveMeeting") => Started("leaveMeeting")
  /\ (Started("monitorChatMessages") /\ ~Returned("monitorChatMessages"))
       => ~Started("leaveMeeting")
  /\ (Started("monitorChatMessages") /\ ~Returned("monitorChatMessages")
        /\ error # "none") => pc \in {"catch", "thrown"}

\* monitoring ended on quit, and leaveMeeting ran and the workflow completed
C2_Witness ==
  /\ Returned("monitorChatMessages")
  /\ Started("leaveMeeting")
  /\ pc = "done"

\* the number of sendQuickReply calls made for message m, whatever the token
ReplyCount(m) == CopiesIn(<<m, S_roger>>, replies) + CopiesIn(<<m, S_dong>>, replies)

\* a self-message as the specification defines it: sent under the bot's name,
\* or a reply token, or the configured initial message
ClaimedSelf(m) ==
  \/ m.name = config.botName
  \/ m.text \in {S_roger, S_dong}
  \/ m.text = config.messageText

\* a self-message as line 433-437 defines it
SkippedAsOwn(m) ==
  \/ m.name = config.botName
  \/ m.text \in {S_roger, S_dong, S_ImIn}

\* the text is the stop command once lower-cased and trimmed
QuitText(m) == Trim(ToLowerCase(m.text)) = <<"q", "u", "i", "t">>

\* C3 as stated: every (sender, text) pair the loop has come to that is neither
\* a self-message nor the quit command has had exactly one reply dispatched,
\* however often it appeared.
C3_ExactlyOneReplyPerPair ==
  \A m \in reached : (~ClaimedSelf(m) /\ ~QuitText(m)) => ReplyCount(m) = 1

\* C4 as stated: no reply is ever dispatched for a message sent under the
\* bot's name, or whose text is 'roger' or 'dong', or whose text is the
\* configured initial message.
C4_SelfMessagesNeverReplied ==
  \A m \in reached : ClaimedSelf(m) => ReplyCount(m) = 0

\* the for loop is at a not-yet-seen quit command from another sender
QuitReached ==
  /\ pc = "monitorFor"
  /\ pending # <<>>
  /\ QuitText(Head(pending))
  /\ MessageKey(Head(pending)) \notin seenMessages
  /\ Head(pending).name # config.botName

\* C5: at a not-yet-seen quit command from another sender monitorChatMessages
\* returns normally, dispatches no reply for it, and leaves the messages that
\* follow it in the batch unprocessed: nothing is processed or replied to
\* once the loop has returned.
C5_QuitEndsLoop ==
  /\ [][QuitReached =>
          /\ pc' = "leaveMeeting"
          /\ error' = "none"
          /\ returned' = Append(returned, "monitorChatMessages")
          /\ replies' = replies
          /\ pending' = Tail(pending)]_vars
  /\ [][pc # "monitorFor" => (reached' = reached /\ replies' = replies)]_vars
  /\ [][Returned("monitorChatMessages") => pending' = pending]_vars

\* the workflow completed after a quit that was followed, in its batch, by a
\* message that was never processed
C5_Witness ==
  /\ pc = "done"
  /\ pending # <<>>
  /\ Head(pending) \notin reached
  /\ \E q \in reached : QuitText(q) /\ ReplyCount(q) = 0

\* the token the specification asks for
ExpectedToken(m) ==
  IF Includes(ToLowerCase(m.text), ToLowerCase(config.botName)) THEN S_dong ELSE S_roger

\* the for loop is at a new message that is neither skipped as the bot's own
\* nor the quit command
NewReplyable ==
  /\ pc = "monitorFor"
  /\ pending # <<>>
  /\ MessageKey(Head(pending)) \notin seenMessages
  /\ ~SkippedAsOwn(Head(pending))
  /\ ~QuitText(Head(pending))

InMeetingCount(ind) ==
  Cardinality({n \in {"joinAudioButton", "participantsButton", "chatButton", "videoButton"} :
                 ind[n] = "visible"})

\* C8: when at least two of join-audio, participants, chat and video are
\* visible at the initial probe, waitForAdmission returns admitted without a
\* single lobby poll; the leave control and the waiting text do not count;
\* with fewer than two visible the poll loop is entered.
C8_AdmissionShortcut ==
  admOut.indicators # None =>
    LET ind == admOut.indicators[1]
    IN /\ (InMeetingCount(ind) >= 2) <=> (admOut.result = "shortcut")
       /\ admOut.result = "shortcut" =>
            /\ admOut.polls = 0
            /\ attempt = 0
            /\ pc = "sendChatMessage"
            /\ Returned("waitForAdmission")
       /\ InMeetingCount(ind) < 2 =>
            /\ admOut.result \in {"polling", "admitted", "terminated", "timeout"}
            /\ admOut.result = "polling" => (pc = "lobbyWait" /\ attempt >= 1)
            /\ admOut.result # "polling" => admOut.polls >= 1

\* the shortcut was taken on exactly two in-meeting controls, the leave
\* control not being visible
C8_Witness ==
  /\ admOut.indicators # None
  /\ admOut.result = "shortcut"
  /\ InMeetingCount(admOut.indicators[1]) = 2
  /\ admOut.indicators[1]["leaveButton"] = "hidden"
  /\ admOut.indicators[1]["waitingText"] = "visible"

\* ceil(lobbyTimeoutMs / 1000)
AttemptBound == (config.lobbyTimeoutMs + 999) \div 1000

C9_Bounded ==
  /\ AttemptBound >= 1
  /\ admOut.polls <= AttemptBound
  /\ pc = "lobbyWait" => admOut.polls = attempt - 1
  /\ admOut.result = "admitted" =>
       (admOut.polls >= 1 /\ error = "none" /\ pc = "sendChatMessage")
  /\ admOut.result = "timeout" =>
       /\ admOut.polls = AttemptBound
       /\ error = "LobbyTimeout"
       /\ debugShots = <<"lobby-timeout">>
       /\ pc = "catch"

\* C9: the lobby poll loop terminates; it makes at most ceil(lobbyTimeoutMs /
\* 1000) attempts, at least one; it returns admitted at the first attempt that
\* sees the leave control; when every attempt fails without terminal-state
\* text it fails with the lobby-timeout error after a debug screenshot.
C9_LobbyLoopTerminates ==
  /\ []C9_Bounded
  /\ [][(pc = "lobbyWait" /\ admOut'.polls = admOut.polls + 1 /\ pc' = "lobbyWait")
          => admOut'.result = "polling"]_vars
  /\ <>(pc \notin {"waitForAdmission", "lobbyWait"})

\* every attempt of a lobby timeout of more than two seconds failed: the
\* lobby-timeout error after all the attempts the timeout allows
C9_Witness ==
  /\ admOut.result = "timeout"
  /\ admOut.polls = AttemptBound
  /\ admOut.polls >= 3
  /\ error = "LobbyTimeout"

\* C10: findChatInputCandidates returns the candidate of lowest index among
\* those its probes found visible; when no probe found one, the candidate of
\* lowest index among those whose fallback wait succeeded.
C10_LowestVisibleWins ==
  resOut # None =>
    LET r == resOut[1]
        V == {i \in 1..NumCandidates : resIn[1].probes[i] = "visible"}
        W == {i \in 1..NumCandidates : resIn[1].waits[i] = "visible"}
    IN /\ V # {} =>
            (r.phase = "parallel" /\ r.index \in V /\ \A j \in V : r.index <= j)
       /\ (V = {} /\ W # {}) =>
            (r.phase = "fallback" /\ r.index \in W /\ \A j \in W : r.index <= j)

\* two candidates were visible at the probe and the one of lower index, not
\* the first of the list, was returned
C10_Witness ==
  /\ resOut # None
  /\ resOut[1].index = 2
  /\ resOut[1].phase = "parallel"
  /\ resIn[1].probes[1] = "error"
  /\ resIn[1].probes[3] = "visible"

\* how many times op was called on candidate i
Calls(op, i) == Cardinality({k \in 1..Len(resLog) : resLog[k] = <<op, i>>})

\* no probe reported the candidate visible and no fallback wait went through
NothingVisible ==
  /\ \A i \in 1..NumCandidates : resIn[1].probes[i] # "visible"
  /\ \A i \in 1..NumCandidates : resIn[1].waits[i] # "visible"

C11_Returned ==
  resOut # None =>
    /\ NothingVisible => resOut[1].index = 0 /\ resOut[1].phase = "none"
    /\ resOut[1].index \in 0..NumCandidates
    /\ \A i \in 1..NumCandidates : Calls("probe", i) = 1 /\ Calls("wait", i) <= 1
    /\ (\E i \in 1..NumCandidates : Calls("wait", i) > 0) =>
         \A i \in 1..NumCandidates : resIn[1].probes[i] # "visible"

\* C11: findChatInputCandidates always ends and always with a returned value:
\* when no probe finds a candidate visible and no fallback wait goes through,
\* probes or waits that error included, it returns "not found"; each candidate
\* is probed once and awaited at most once; and a candidate is awaited only
\* when the parallel phase found nothing.
C11_ResolverEndsNotFound == []C11_Returned /\ <>(resOut # None)

\* nothing was visible, one probe and one wait ended in an error, and every
\* candidate was tried in both phases before "not found" was returned
C11_Witness ==
  /\ resOut # None
  /\ resOut[1].phase = "none"
  /\ \E i \in 1..NumCandidates : resIn[1].probes[i] = "error"
  /\ \E i \in 1..NumCandidates : resIn[1].waits[i] = "error"
  /\ Len(resLog) = 2 * NumCandidates

\* C12: dismissBlockingModals never raises to its caller and never keeps the
\* calling stage (submitJoin, sendChatMessage) from going on, whatever the
\* overlay counts, the dismiss clicks, the Escape key-press, the settle waits
\* and the force-removal do.
C12_ModalsNeverRaise ==
  modOut # None =>
    /\ ~modOut[1].raised
    /\ pc \in {"submitJoin", "sendChatMessage"}
    /\ error = "none"

\* C13: leaveMeeting never raises: once leaveMeeting was reached, whatever its
\* strategies and its confirmation clicks do, no error is raised and the
\* workflow goes on to 'Workflow completed', never to the failure path.
C13_LeaveNeverRaises ==
  Started("leaveMeeting") =>
    /\ error = "none"
    /\ pc \in {"leaveStrategy", "leaveConfirm", "completed", "done"}

\* the step of the catch of joinAndChat: the error caught is the error thrown
\* on, after one screenshot attempt if the page is open and none if it is closed
C14_CatchStep ==
  pc = "catch" =>
    /\ pc' = "thrown"
    /\ error' = error
    /\ pageClosed' # None
    /\ IF pageClosed'[1]
       THEN shots' = shots /\ failureShot' = "none"
       ELSE shots' = shots + 1 /\ failureShot' \in {"saved", "failed"}

\* C14: an error raised by a stage of joinAndChat ends the workflow in failure
\* and is the error joinAndChat throws to its caller: no stage runs after it;
\* with the page open one screenshot is attempted first, and a failing
\* screenshot neither replaces nor suppresses the error; with the page closed
\* the error is thrown on with no capture attempt.
C14_ErrorPropagates ==
  /\ [](error # "none" => pc \in {"catch", "thrown"})
  /\ [](shots <= 1)
  /\ [][error = "none" /\ error' # "none" => pc' = "catch"]_vars
  /\ [][C14_CatchStep]_vars
  /\ [][pc = "thrown" => pc' = "thrown" /\ error' = error]_vars

\* the lobby timed out, the page was open, the one screenshot failed, and the
\* lobby-timeout error was thrown on
C14_Witness ==
  /\ pc = "thrown"
  /\ error = "LobbyTimeout"
  /\ pageClosed = Some(FALSE)
  /\ failureShot = "failed"
  /\ shots = 1

\* how many times sendChatMessage filled and submitted the configured message
\* according to the record b of the texts sent
InitialSends(b) == CopiesIn(<<"sendChatMessage", config.messageText>>, b)

C15_State ==
  /\ InitialSends(sends) <= 1
  /\ \A e \in BagToSet(sends) : e[1] = "sendChatMessage" => e[2] = config.messageText
  /\ Started("monitorChatMessages") => InitialSends(sends) = 1
  /\ InitialSends(sends) = 1 => Returned("waitForAdmission")

\* C15: in a session that reaches monitoring, sendChatMessage has filled and
\* submitted the configured message exactly once; that send comes after
\* admission and before the first poll and the first reply; and the message
\* is not sent again during monitoring or leave.
C15_OneInitialSend ==
  /\ []C15_State
  /\ [][InitialSends(sends') # InitialSends(sends) =>
          /\ pc = "fillChatInput"
          /\ Returned("waitForAdmission")
          /\ ~Started("monitorChatMessages")
          /\ reached = {}
          /\ replies = EmptyBag
          /\ sends = EmptyBag]_vars

\* a completed session: one send of the configured message, then a reply
\* sent during monitoring
C15_Witness ==
  /\ pc = "done"
  /\ InitialSends(sends) = 1
  /\ BagCardinality(sends) >= 2

\* C16: when the host passes monitorMessages = false to loadConfig (the
\* --no-monitor option), the session never enters monitorChatMessages: no
\* poll is made and no reply is dispatched, and the leave sequence follows
\* the chat send directly.
C16_NoMonitorSkipsMonitoring ==
  overrides.monitorMessages = Some(FALSE) =>
    /\ ~Started("monitorChatMessages")
    /\ pc \notin {"monitorChatMessages", "monitorWhile", "monitorFor"}
    /\ reached = {}
    /\ replies = EmptyBag

\* the session of the end-to-end example: default bot name and message,
\* monitoring on, no stage has raised, and the only messages the loop has
\* come to are the bot's own initial message and a 'quit' of another sender
C17_Scenario ==
  /\ config.botName = S_FridayBOT
  /\ config.messageText = S_ImIn
  /\ config.monitorMessages
  /\ error = "none"
  /\ reached \subseteq {ExtractMessage(El_Fr_ImIn), ExtractMessage(El_al_Quit)}

\* C17: end to end, with bot name 'Friday BOT', message "I'm in.", monitoring
\* on, every stage succeeding and the chat showing only the bot's own initial
\* message and then a 'quit' of another sender, the workflow goes through the
\* stages in order up to 'Workflow completed', with exactly one chat send, of
\* "I'm in.", and no reply dispatched.
C17_EndToEnd ==
  C17_Scenario =>
    /\ IsPrefix(stages, StageOrder)
    /\ IsPrefix(returned, stages)
    /\ replies = EmptyBag
    /\ sends \in {EmptyBag, SetToBag({<<"sendChatMessage", S_ImIn>>})}
    /\ Returned("sendChatMessage") => sends = SetToBag({<<"sendChatMessage", S_ImIn>>})
    /\ pc = "done" => stages = StageOrder /\ returned = StageOrder

\* the example has run to its end: both messages were come to, and the
\* workflow is completed
C17_Witness ==
  /\ C17_Scenario
  /\ pc = "done"
  /\ reached = {ExtractMessage(El_Fr_ImIn), ExtractMessage(El_al_Quit)}
  /\ sends = SetToBag({<<"sendChatMessage", S_ImIn>>})

\* the replies sendQuickReply filled and submitted, according to the record b
ReplySends(b) == CopiesIn(<<"sendQuickReply", S_roger>>, b) + CopiesIn(<<"sendQuickReply", S_dong>>, b)

\* a step of the for loop that dispatched a reply which was not sent
FailedDispatch ==
  /\ pc = "monitorFor"
  /\ BagCardinality(replies') = BagCardinality(replies) + 1
  /\ ReplySends(sends') = ReplySends(sends)

\* C18: a reply dispatch that fails (no chat input resolved, or the fill or
\* the key-press failing) raises nothing out of sendQuickReply, does not end
\* the monitoring loop and does not count as a consecutive error: the loop
\* goes on with the next message of the batch.
C18_FailedReplyNotFatal ==
  [][FailedDispatch =>
       /\ pc' = "monitorFor"
       /\ error' = error
       /\ returned' = returned
       /\ consecutiveErrors' = consecutiveErrors
       /\ failRun' = failRun
       /\ pending' = Tail(pending)]_vars

\* a reply was dispatched and not sent, and the loop went on to the 'quit'
\* that ended monitoring
C18_Witness ==
  /\ BagCardinality(replies) = 1
  /\ ReplySends(sends) = 0
  /\ Returned("monitorChatMessages")
  /\ error = "none"

\* C19: every polling exception below the ceiling is transient: the
\* monitoring loop ends only by returning on the quit command or by raising
\* the monitoring-failed error with the counter at the ceiling; no single
\* failure, of a wait inside the loop included, ends it earlier or with
\* another error.
C19_EndsByQuitOrCeiling ==
  pc \notin {"monitorChatMessages", "monitorWhile", "monitorFor"} =>
    \/ error = "none" /\ Returned("monitorChatMessages")
    \/ error = "MonitoringFailed" /\ consecutiveErrors = maxConsecutiveErrors

\* C20: the one-shot chat send fails with the chat-input-unresolved error
\* only when the primary resolution and all seven activation strategies
\* failed; and whenever the primary resolution succeeded or
\* tryActivateChatInput reported success, by whichever strategy, the
\* configured message is filled and submitted (a fill or key-press that
\* itself fails set aside).
C20_ActivatedMeansSent ==
  /\ error = "ChatInputUnresolved" => ~resolvedInput /\ activatedBy = 0
  /\ ( /\ Started("sendChatMessage")
       /\ pc \notin {"sendChatMessage", "resolveChatInput", "tryActivateChatInput",
                     "fillChatInput"}
       /\ resolvedInput \/ activatedBy # 0
       /\ error # "PlaywrightError" )
     => InitialSends(sends) = 1

\* the strategies of the ladder log, in the order they were attempted
LadderTried == [i \in 1..Len(ladderLog) |-> ladderLog[i][1]]

\* tryActivateChatInput has returned
LadderOver == pc # "tryActivateChatInput"

C21_Ladder ==
  /\ LadderTried = [i \in 1..Len(ladderLog) |-> i]
  /\ Len(ladderLog) <= NumStrategies
  /\ \A i \in 1..Len(ladderLog) - 1 : ladderLog[i][2] # "found"
  /\ ~LadderOver => /\ strategy = Len(ladderLog) + 1
                    /\ \A i \in 1..Len(ladderLog) : ladderLog[i][2] # "found"
                    /\ error = "none"
  /\ LadderOver =>
       \/ /\ pc = "fillChatInput"
          /\ error = "none"
          /\ ladderLog[Len(ladderLog)][2] = "found"
          /\ activatedBy = Len(ladderLog)
       \/ /\ pc = "catch"
          /\ error = "ChatInputUnresolved"
          /\ Len(ladderLog) = NumStrategies
          /\ \A i \in 1..NumStrategies : ladderLog[i][2] # "found"
          /\ activatedBy = 0

\* C21: tryActivateChatInput runs its strategies in the order 1..7: strategy
\* k is attempted exactly when strategies 1..k-1 all failed; an error inside
\* a strategy neither ends the ladder nor leaves the function; the function
\* returns true at the first strategy that succeeds, attempting none after
\* it, and returns false only after all seven were attempted.
C21_LadderInOrder ==
  /\ []C21_Ladder
  /\ [][pc = "tryActivateChatInput" => Len(ladderLog') = Len(ladderLog) + 1]_vars

\* strategies 1 and 2 threw, 3 and 4 found nothing, and strategy 5 succeeded
C21_Witness ==
  /\ pc = "fillChatInput"
  /\ ladderLog = << <<1, "threw">>, <<2, "threw">>, <<3, "notFound">>,
                   <<4, "notFound">>, <<5, "found">> >>

\* the entries of the leave log of one kind
LeaveEntries(kind) == {i \in 1..Len(leaveLog) : leaveLog[i][1] = kind}

\* C22: leaveMeeting tries its four leave strategies in the fixed order:
\* strategy k is attempted only if strategies 1..k-1 all failed, and none is
\* attempted after one has succeeded; a confirmation click is attempted only
\* if some strategy succeeded, and the clicks stop at the first confirmation
\* control clicked.
C22_LeaveInOrder ==
  /\ \A i \in LeaveEntries("strategy") : leaveLog[i][2] = i
  /\ \A i, j \in LeaveEntries("strategy") : i < j => leaveLog[i][3] = "threw"
  /\ LeaveEntries("confirm") # {} =>
       \E i \in LeaveEntries("strategy") : leaveLog[i][3] # "threw"
  /\ \A i, j \in LeaveEntries("confirm") : i < j => leaveLog[i][3] = "threw"

C23_Checks ==
  /\ admOut.result \in {"polling", "timeout"} =>
       admOut.checks = admOut.polls /\ ~admOut.terminalSeen
  /\ admOut.result = "admitted" =>
       admOut.checks = admOut.polls - 1 /\ ~admOut.terminalSeen /\ error = "none"
  /\ admOut.result = "terminated" =>
       /\ admOut.terminalSeen
       /\ admOut.checks = admOut.polls
       /\ error = "MeetingTerminated"
       /\ pc = "catch"
       /\ attempt = 0
       /\ debugShots = <<"meeting-error-state">>
  /\ error = "LobbyTimeout" => admOut.result = "timeout"

\* C23: in the lobby poll loop the terminal-state text is checked after every
\* failed poll attempt; when it is visible the stage aborts at once with the
\* meeting-terminated error, which is not the lobby-timeout error, and polls
\* no more; an attempt in which the leave control becomes visible reports
\* admission without consulting the terminal-state text.
C23_TerminalTextAborts ==
  /\ []C23_Checks
  /\ [][admOut.result \in {"terminated", "admitted"} => admOut' = admOut]_vars

\* the second poll attempt of a longer wait failed with the terminal-state
\* text visible
C23_Witness ==
  /\ admOut.result = "terminated"
  /\ admOut.polls = 2
  /\ admOut.checks = 2
  /\ AttemptBound >= 3

JoinLog == joinOut[1].out.log

JoinEntries(kind, o) ==
  {i \in 1..Len(JoinLog) : JoinLog[i][1] = kind /\ JoinLog[i][3] = o}

\* C24: submitJoin runs modal dismissal before any join action; when it
\* returns normally it clicked at most one Join control, the lowest-index
\* visible candidate or else the first whose fallback click succeeded, and
\* pressed Enter if and only if no click succeeded; a failing click on one
\* candidate is followed by the next candidate or by the Enter fallback and
\* does not fail the stage.
C24_OneJoinAction ==
  joinOut # None =>
    /\ JoinLog[1][1] = "dismiss"
    /\ \A i \in 2..Len(JoinLog) : JoinLog[i][1] # "dismiss"
    /\ ~joinOut[1].out.raised =>
         /\ Cardinality(JoinEntries("click", "ok")) <= 1
         /\ JoinEntries("enter", "ok") # {} <=> JoinEntries("click", "ok") = {}
         /\ \A i \in JoinEntries("click", "ok") :
              \A j \in 1..NumJoinCandidates :
                joinOut[1].visible[j] => JoinLog[i][2] <= j
    /\ \A i \in JoinEntries("click", "threw") :
         /\ i < Len(JoinLog)
         /\ \/ JoinLog[i + 1][1] = "enter"
            \/ JoinLog[i + 1][1] = "click" /\ JoinLog[i + 1][2] = JoinLog[i][2] + 1

OpenLog == openOut[1].out.log

OpenEntries(kind, o) ==
  {i \in 1..Len(OpenLog) : OpenLog[i][1] = kind /\ OpenLog[i][3] \in o}

C25_OpenStep ==
  openOut # None /\ OpenLog[1] = <<"dismiss", 0, "ok">> =>
    /\ Cardinality(OpenEntries("click", {"ok"})) <= 1
    /\ \A i \in OpenEntries("click", {"ok", "threw"}) :
         /\ openOut[1].button[OpenLog[i][2]] # "hidden"
         /\ \A j \in 1..(OpenLog[i][2] - 1) :
              openOut[1].button[j] # "hidden" =>
                \E h \in 1..(i - 1) : OpenLog[h] = <<"click", j, "threw">>
    /\ OpenEntries("press", {"ok", "threw"}) # {} <=> OpenEntries("click", {"ok"}) = {}
    /\ \A i \in OpenEntries("press", {"ok", "threw"}) :
         \A j \in OpenEntries("click", {"ok", "threw"}) : j < i

\* C25: in sendChatMessage at most one chat-open control is clicked with
\* success, the controls being tried in priority order among the visible ones;
\* Alt+H is sent if and only if no click on a chat-open control succeeded; the
\* chat input is resolved only after the open step and its settle delay.
C25_ChatOpenThenResolve ==
  /\ C25_OpenStep
  /\ pc \in {"resolveChatInput", "fillChatInput", "tryActivateChatInput"} =>
       /\ openOut # None
       /\ ~openOut[1].out.raised
       /\ OpenLog[Len(OpenLog)] = <<"wait", 300, "ok">>
       /\ OpenEntries("click", {"ok"}) \cup OpenEntries("press", {"ok"}) # {}

\* the first visible control could not be clicked, the next visible one could,
\* and the input is about to be resolved
C25_Witness ==
  /\ pc = "resolveChatInput"
  /\ openOut # None
  /\ openOut[1].button[1] = "threw"
  /\ openOut[1].button[2] = "hidden"
  /\ OpenLog = << <<"dismiss", 0, "ok">>, <<"click", 1, "threw">>,
                  <<"click", 3, "ok">>, <<"wait", 300, "ok">> >>

\* C26: the seen-message set only grows during a monitoring session, and a
\* message reached in a batch has its key in the set before the self-filter,
\* the quit check and any reply dispatch act on it, so the bot's own messages
\* are recorded as seen too.
C26_SeenOnlyGrows ==
  /\ [](\A m \in reached : MessageKey(m) \in seenMessages)
  /\ [](\A r \in BagToSet(replies) : MessageKey(r[1]) \in seenMessages)
  /\ [][seenMessages \subseteq seenMessages']_vars
  /\ [][pc = "monitorFor" /\ pending # <<>> =>
          MessageKey(Head(pending)) \in seenMessages']_vars

\* one of the bot's own messages and a message of somebody else were reached
C26_Witness ==
  /\ \E m \in reached : IsBotOwnMessage(m) /\ MessageKey(m) \in seenMessages
  /\ \E m \in reached : ~IsBotOwnMessage(m)
  /\ Cardinality(seenMessages) >= 2
  /\ pc = "monitorFor"

\* C28: two chat messages with different (senderName, text) pairs have
\* distinct dedup keys, so neither is treated as a duplicate of the other.
C28_KeysDistinct ==
  \A m1, m2 \in reached :
    <<m1.name, m1.text>> # <<m2.name, m2.text>> => MessageKey(m1) # MessageKey(m2)

C29_OwnCommand(msg) ==
  IsBotOwnMessage(msg) /\ (IsQuitCommand(msg) \/ MentionsBot(msg))

\* C29: the self-filter takes precedence over command detection: a message
\* attributed to the bot whose text is 'quit' or contains the bot's name neither
\* ends the monitoring loop nor triggers a reply.
C29_SelfFilterFirst ==
  /\ [](\A r \in BagToSet(replies) : ~IsBotOwnMessage(r[1]))
  /\ [][pc = "monitorFor" /\ pending # <<>> /\ C29_OwnCommand(Head(pending)) =>
          /\ pc' = "monitorFor"
          /\ returned' = returned
          /\ replies' = replies
          /\ sends' = sends]_vars

\* the loop went past a quit and a mention, both sent under the bot's name
C29_Witness ==
  /\ \E m \in reached : IsBotOwnMessage(m) /\ IsQuitCommand(m)
  /\ \E m \in reached : IsBotOwnMessage(m) /\ MentionsBot(m)
  /\ pc = "monitorFor"
  /\ pending = <<>>
  /\ replies = EmptyBag

C30_Dispatchable ==
  {MessageKey(m) : m \in {x \in reached : ~IsBotOwnMessage(x) /\ ~IsQuitCommand(x)}}

\* C30: a message whose reply dispatch failed is never retried: its key was
\* marked seen before the dispatch, so no later poll dispatches a reply for
\* it, and over a session the number of reply dispatches is at most the
\* number of distinct non-self, non-quit keys observed.
C30_NoRetry ==
  /\ [](BagCardinality(replies) <= Cardinality(C30_Dispatchable))
  /\ [][pc = "monitorFor" /\ pending # <<>>
          /\ MessageKey(Head(pending)) \in seenMessages => replies' = replies]_vars

\* a later poll brings back the message whose only reply dispatch failed
C30_Witness ==
  /\ pc = "monitorFor"
  /\ pending # <<>>
  /\ BagCardinality(replies) = 1
  /\ \E r \in BagToSet(replies) : r[1] = Head(pending) /\ <<"sendQuickReply", r[2]>> \notin BagToSet(sends)
  /\ MessageKey(Head(pending)) \in seenMessages

C27_Escalation ==
  <<"count", "clicks", "escape", "settle", "recount", "remove", "settle">>

\* C27: dismissBlockingModals performs no click, no key-press and no
\* structural removal when the initial overlay count is zero; when it is
\* non-zero it goes through the dismiss clicks, the Escape key-press and the
\* overlay re-count in that order, and force-removes the overlay containers
\* only if the re-count is still greater than zero.
C27_ModalEscalation ==
  modOut # None =>
    LET in == modIn[1]
        out == modOut[1]
    IN /\ in.initialCount = Some(0) => out.log = <<"count">> /\ ~out.raised
       /\ in.initialCount = None => out.log = <<"count">>
       /\ in.initialCount \notin {None, Some(0)} =>
            /\ IsPrefix(out.log, C27_Escalation)
            /\ Len(out.log) >= 4
            /\ "remove" \in Range(out.log) <=>
                 in.settle = "ok" /\ in.remaining # None /\ in.remaining[1] > 0
            /\ in.settle = "ok" => Len(out.log) >= 5

\* an overlay was counted, the clicks and Escape left it there, and the
\* containers were removed
C27_Witness ==
  /\ modOut # None
  /\ modIn[1].initialCount = Some(1)
  /\ modIn[1].remaining = Some(1)
  /\ modOut[1].log = C27_Escalation
  /\ ~modOut[1].raised

C31_Launched == run.outcome # Some("LaunchError")

C31_AfterFinally ==
  pc = "exited" /\ C31_Launched =>
    /\ run.handlers = {}
    /\ run.closes = 1
    /\ run.outcome = Some(error)
    /\ Returned("completed") <=> run.outcome = Some("none")

\* C31: once the browser has been launched, run() removes the
\* termination-signal handlers and requests the browser close on every exit
\* path of the workflow, completed or failed, and a failure of the close does
\* not change the outcome: a workflow error is still propagated and a
\* completed workflow still returns normally.
C31_CleanupOnEveryExit ==
  /\ []C31_AfterFinally
  /\ [][(pc \in WorkflowOver) =>
          /\ pc' = "exited"
          /\ run.handlers = signals
          /\ (run').handlers = {}
          /\ (run').closes = run.closes + 1
          /\ error' = error]_vars
  /\ (pc \in WorkflowOver) ~> (pc = "exited")

\* the workflow completed, the browser close failed, and run() returned
C31_Witness ==
  /\ pc = "exited"
  /\ Returned("completed")
  /\ run.closeFailed
  /\ run.handlers = {}
  /\ run.outcome = Some("none")

=============================================================================
